---------------------------- MODULE Spec2Model ----------------------------
(***************************************************************************)
(* Semi-Global Matching (hls/src/sgm_hls.cpp): matching-cost volume, four  *)
(* 1D path aggregations and winner-take-all disparity selection.           *)
(*                                                                         *)
(* The image geometry of sgm_hls.h (240 x 272 pixels, 16 disparities) is   *)
(* scaled down to HEIGHT x WIDTH x MAX_DISP below so that the state space  *)
(* is finite and small; the penalties and sentinels keep their values.     *)
(* Pixel values are integers, for which every float operation of the code  *)
(* (differences, sums below 2^24, comparisons) is exact.                   *)
(***************************************************************************)
EXTENDS Integers, Sequences, FiniteSets

\* sgm_hls.h:13-15, scaled down (240, 272, 16 in the source).
HEIGHT == 2
WIDTH == 3
MAX_DISP == 3

\* sgm_hls.h:18-19
P1_PENALTY == 8
P2_PENALTY == 128

\* sgm_hls.cpp:31, the cost of a disparity shift that leaves the image.
OUT_OF_BOUNDS_COST == 1000
\* sgm_hls.cpp:85-86, the cost of a disparity step that does not exist.
NO_STEP_COST == 2000
\* sgm_hls.cpp:155, the initial min_total_cost (1e9).
INITIAL_MIN_TOTAL == 1000000000

\* Largest grayscale intensity of an input pixel, and an intermediate one
\* (below P2_PENALTY, so that keeping the disparity can beat a jump).
GrayMax == 255
MidGray == 100
\* Number of sgm_hls invocations in a sequence (SpecRepeat).
MaxRuns == 3

Rows == 0 .. (HEIGHT - 1)
Cols == 0 .. (WIDTH - 1)
Disps == 0 .. (MAX_DISP - 1)
PixelIdx == 0 .. (HEIGHT * WIDTH - 1)
PathIds == 1 .. 4

\* All images with pixels in vals.
ImagesOver(vals) == [PixelIdx -> vals]
Images == ImagesOver({0, GrayMax})
\* The image pairs sgm_hls is run on: all two-level pairs, for two contrasts.
ImagePairs ==
    (Images \X Images) \cup (ImagesOver({0, MidGray}) \X ImagesOver({0, MidGray}))
\* Images that are 0 outside two probe pixels: the inputs of the
\* specifications that multiply the inputs by histories or interleavings.
ProbePixels == {1, HEIGHT * WIDTH - 1}
SmallImages == {img \in Images : \A i \in PixelIdx \ ProbePixels : img[i] = 0}
SmallPairs == SmallImages \X SmallImages
\* The caller's output buffer is uninitialised and sgm_hls never reads it:
\* one marker that is no disparity stands for its indeterminate content.
GarbageVals == {-1}

\* sgm_hls.cpp:144-147, the (dir_y, dir_x) arguments of the four calls.
CardinalDirs == << <<0, 1>>, <<0, -1>>, <<1, 0>>, <<-1, 0>> >>
\* Direction arguments a direct caller of aggregate_path_hls may pass.
DirInputs == {<<dy, dx>> : dy \in {-1, 0, 1}, dx \in {-1, 0, 1}}
IsCardinal(dir) == \E k \in PathIds : CardinalDirs[k] = dir

\* A static float[HEIGHT][WIDTH][MAX_DISP] buffer is zero-initialised.
ZeroVolume == [y \in Rows |-> [x \in Cols |-> [d \in Disps |-> 0]]]

VARIABLES
    left_pixels,        \* input image (reference)
    right_pixels,       \* input image (target)
    cost_volume,        \* static cost_volume[HEIGHT][WIDTH][MAX_DISP]
    path_cost_volume,   \* the four static path_* volumes, by call 1..4
    disparity_output,   \* the caller's output buffer
    dir_args,           \* (dir_y, dir_x) passed to each of the four calls
    pc,                 \* "start", "aggregate", "done"
    scan,               \* loop variables <<y, x>> of each aggregation
    visited,            \* history: pixels each aggregation has written, in order
    run,                \* number of the current invocation
    first,              \* history: inputs and output of the first invocation
    mixed               \* history: an invocation with other inputs has run

vars == <<left_pixels, right_pixels, cost_volume, path_cost_volume,
          disparity_output, dir_args, pc, scan, visited, run, first, mixed>>

-----------------------------------------------------------------------------
(* compute_sad_cost_hls *)

fabs_nosign(v) == v
fabs(v) == IF v < 0 THEN -v ELSE v

SadCell_strict(left, right, y, x, d) ==
    IF x - d > 0
    THEN fabs(left[y * WIDTH + x] - right[y * WIDTH + (x - d)])
    ELSE OUT_OF_BOUNDS_COST
SadCell(left, right, y, x, d) ==
    IF x - d >= 0
    THEN fabs(left[y * WIDTH + x] - right[y * WIDTH + (x - d)])
    ELSE OUT_OF_BOUNDS_COST

compute_sad_cost_hls(left, right) ==
    [y \in Rows |-> [x \in Cols |-> [d \in Disps |-> SadCell(left, right, y, x, d)]]]

-----------------------------------------------------------------------------
(* aggregate_path_hls *)

ScanOrder_ascending(dir_y, dir_x) ==
    [y_start |-> 0, y_end |-> HEIGHT, y_step |-> 1,
     x_start |-> 0, x_end |-> WIDTH, x_step |-> 1]
ScanOrder(dir_y, dir_x) ==
    [y_start |-> IF dir_y >= 0 THEN 0 ELSE HEIGHT - 1,
     y_end   |-> IF dir_y >= 0 THEN HEIGHT ELSE -1,
     y_step  |-> IF dir_y >= 0 THEN 1 ELSE -1,
     x_start |-> IF dir_x >= 0 THEN 0 ELSE WIDTH - 1,
     x_end   |-> IF dir_x >= 0 THEN WIDTH ELSE -1,
     x_step  |-> IF dir_x >= 0 THEN 1 ELSE -1]

ScanStart_origin(dir) == <<0, 0>>
ScanStart(dir) ==
    LET so == ScanOrder(dir[1], dir[2]) IN <<so.y_start, so.x_start>>
ScanFinished(dir, pos) == pos[1] = ScanOrder(dir[1], dir[2]).y_end
\* The loop variables after the body has run at pos.
ScanAdvance(dir, pos) ==
    LET so == ScanOrder(dir[1], dir[2])
        x2 == pos[2] + so.x_step
    IN  IF x2 # so.x_end THEN <<pos[1], x2>>
        ELSE <<pos[1] + so.y_step, so.x_start>>

InFrame(prev_y, prev_x) ==
    prev_y >= 0 /\ prev_y < HEIGHT /\ prev_x >= 0 /\ prev_x < WIDTH

\* The loop over i of lines 72-77, entered with m = prev[0] and i = 1.
RECURSIVE MinPrevLoop(_, _, _)
MinPrevLoop(prev, i, m) ==
    IF i >= MAX_DISP THEN m
    ELSE MinPrevLoop(prev, i + 1, IF prev[i] < m THEN prev[i] ELSE m)
min_prev_aggregated(prev) == MinPrevLoop(prev, 1, prev[0])

cost_step_down_free(prev, d) ==
    IF d > 0 THEN prev[d - 1] + P1_PENALTY ELSE 0
cost_step_down(prev, d) ==
    IF d > 0 THEN prev[d - 1] + P1_PENALTY ELSE NO_STEP_COST
cost_step_up(prev, d) ==
    IF d < MAX_DISP - 1 THEN prev[d + 1] + P1_PENALTY ELSE NO_STEP_COST

min_transition_cost(prev, d, min_prev) ==
    LET cost_same == prev[d]
        cost_jump == min_prev + P2_PENALTY
        m1 == IF cost_step_down(prev, d) < cost_same
              THEN cost_step_down(prev, d) ELSE cost_same
        m2 == IF cost_step_up(prev, d) < m1 THEN cost_step_up(prev, d) ELSE m1
    IN  IF cost_jump < m2 THEN cost_jump ELSE m2

PathUpdate_unnormalised(cost, min_transition, min_prev) == cost + min_transition
\* Line 101.
PathUpdate(cost, min_transition, min_prev) == cost + (min_transition - min_prev)

\* The loop over d of lines 79-102: it writes vol[y][x][d] in place, reading
\* the predecessor's cells from the same buffer.
RECURSIVE RecurrenceLoop(_, _, _, _, _, _, _, _)
RecurrenceLoop(cost, vol, y, x, prev_y, prev_x, min_prev, d) ==
    IF d >= MAX_DISP THEN vol
    ELSE RecurrenceLoop(cost,
            [vol EXCEPT ![y][x][d] =
                PathUpdate(cost[y][x][d],
                           min_transition_cost(vol[prev_y][prev_x], d, min_prev),
                           min_prev)],
            y, x, prev_y, prev_x, min_prev, d + 1)

BoundaryInit_keep(cost, vol, y, x) == vol
\* Lines 107-108.
BoundaryInit(cost, vol, y, x) == [vol EXCEPT ![y][x] = cost[y][x]]

\* The body of the pixel loop, lines 65-109.
AggregatePixel(cost, vol, dir_y, dir_x, y, x) ==
    LET prev_y == y - dir_y
        prev_x == x - dir_x
    IN  IF InFrame(prev_y, prev_x)
        THEN RecurrenceLoop(cost, vol, y, x, prev_y, prev_x,
                            min_prev_aggregated(vol[prev_y][prev_x]), 0)
        ELSE BoundaryInit(cost, vol, y, x)

\* The whole call: the pixel loop from pos to its end.
RECURSIVE AggregateFrom(_, _, _, _)
AggregateFrom(cost, vol, dir, pos) ==
    IF ScanFinished(dir, pos) THEN vol
    ELSE AggregateFrom(cost,
            AggregatePixel(cost, vol, dir[1], dir[2], pos[1], pos[2]),
            dir, ScanAdvance(dir, pos))
aggregate_path_hls(cost, vol, dir_y, dir_x) ==
    AggregateFrom(cost, vol, <<dir_y, dir_x>>, ScanStart(<<dir_y, dir_x>>))

-----------------------------------------------------------------------------
(* sgm_hls: summation and winner-take-all *)

total_aggregated_cost(paths, y, x, d) ==
    paths[1][y][x][d] + paths[2][y][x][d] + paths[3][y][x][d] + paths[4][y][x][d]

WtaBetter_orEqual(total, min_total_cost) == total <= min_total_cost
\* Line 167.
WtaBetter(total, min_total_cost) == total < min_total_cost

\* The loop over d of lines 158-172.
RECURSIVE WtaLoop(_, _, _, _, _, _)
WtaLoop(paths, y, x, d, min_total_cost, best_disparity) ==
    IF d >= MAX_DISP THEN best_disparity
    ELSE LET t == total_aggregated_cost(paths, y, x, d)
         IN  IF WtaBetter(t, min_total_cost)
             THEN WtaLoop(paths, y, x, d + 1, t, d)
             ELSE WtaLoop(paths, y, x, d + 1, min_total_cost, best_disparity)

select_disparity(paths) ==
    [i \in PixelIdx |->
        WtaLoop(paths, i \div WIDTH, i % WIDTH, 0, INITIAL_MIN_TOTAL, 0)]

\* The path volume passed to the k-th call (lines 144-147), which the call
\* both reads its predecessors from and writes to.
BufferOf_first(k) == 1
BufferOf(k) == k

-----------------------------------------------------------------------------
(* The state machine *)

NoFirst == [valid |-> FALSE]

InitWith(pairs, dirs) ==
    /\ \E p \in pairs : left_pixels = p[1] /\ right_pixels = p[2]
    /\ cost_volume = ZeroVolume
    /\ path_cost_volume = [k \in PathIds |-> ZeroVolume]
    /\ \E g \in GarbageVals : disparity_output = [i \in PixelIdx |-> g]
    /\ dir_args \in dirs
    /\ pc = "start"
    /\ scan = [k \in PathIds |-> <<0, 0>>]
    /\ visited = [k \in PathIds |-> <<>>]
    /\ run = 1
    /\ first = NoFirst
    /\ mixed = FALSE

\* sgm_hls called with any image pair.
Init == InitWith(ImagePairs, {CardinalDirs})

\* Line 141.
ComputeCost ==
    /\ pc = "start"
    /\ cost_volume' = compute_sad_cost_hls(left_pixels, right_pixels)
    /\ scan' = [k \in PathIds |-> ScanStart(dir_args[k])]
    /\ visited' = [k \in PathIds |-> <<>>]
    /\ pc' = "aggregate"
    /\ UNCHANGED <<left_pixels, right_pixels, path_cost_volume,
                   disparity_output, dir_args, run, first, mixed>>

\* One iteration of the pixel loop of the k-th call (lines 62-110).
AggregateStep(k) ==
    /\ pc = "aggregate"
    /\ ~ScanFinished(dir_args[k], scan[k])
    /\ path_cost_volume' =
         [path_cost_volume EXCEPT ![BufferOf(k)] =
            AggregatePixel(cost_volume, path_cost_volume[BufferOf(k)],
                           dir_args[k][1], dir_args[k][2], scan[k][1], scan[k][2])]
    /\ scan' = [scan EXCEPT ![k] = ScanAdvance(dir_args[k], scan[k])]
    /\ visited' = [visited EXCEPT ![k] = Append(@, scan[k])]
    /\ UNCHANGED <<left_pixels, right_pixels, cost_volume, disparity_output,
                   dir_args, pc, run, first, mixed>>

\* Lines 144-147: the calls run one after the other.
AggregateInOrder(k) ==
    /\ \A j \in PathIds : j < k => ScanFinished(dir_args[j], scan[j])
    /\ AggregateStep(k)

AllAggregated == \A k \in PathIds : ScanFinished(dir_args[k], scan[k])

\* Lines 150-175.
SelectDisparity ==
    /\ pc = "aggregate"
    /\ AllAggregated
    /\ disparity_output' = select_disparity(path_cost_volume)
    /\ first' = IF first.valid THEN first
                ELSE [valid |-> TRUE, left |-> left_pixels, right |-> right_pixels,
                      out |-> select_disparity(path_cost_volume)]
    /\ pc' = "done"
    /\ UNCHANGED <<left_pixels, right_pixels, cost_volume, path_cost_volume,
                   dir_args, scan, visited, run, mixed>>

\* The caller invokes sgm_hls again, with new images and the same buffers.
Restart ==
    /\ pc = "done"
    /\ run < MaxRuns
    /\ \E p \in SmallPairs : left_pixels' = p[1] /\ right_pixels' = p[2]
    /\ mixed' = (mixed \/ left_pixels # first.left \/ right_pixels # first.right)
    /\ run' = run + 1
    /\ pc' = "start"
    /\ UNCHANGED <<cost_volume, path_cost_volume, disparity_output, dir_args,
                   scan, visited, first>>

Next ==
    \/ ComputeCost
    \/ \E k \in PathIds : AggregateInOrder(k)
    \/ SelectDisparity

Spec == Init /\ [][Next]_vars

\* A sequence of invocations.
InitRepeat == InitWith(SmallPairs, {CardinalDirs})
NextRepeat == Next \/ Restart
SpecRepeat == InitRepeat /\ [][NextRepeat]_vars

\* The four aggregations interleaved pixel by pixel.
NextPar ==
    \/ ComputeCost
    \/ \E k \in PathIds : AggregateStep(k)
    \/ SelectDisparity
SpecPar == InitRepeat /\ [][NextPar]_vars

\* aggregate_path_hls called directly, with any direction as the first call's.
InitAnyDir ==
    InitWith(SmallPairs,
             {[CardinalDirs EXCEPT ![1] = dir] : dir \in DirInputs})
SpecAnyDir == InitAnyDir /\ [][Next]_vars

-----------------------------------------------------------------------------
(* Properties *)

SetMin(S) == CHOOSE m \in S : \A v \in S : m <= v
Values(vec) == {vec[d] : d \in Disps}
VisitedSet(k) == {visited[k][i] : i \in 1 .. Len(visited[k])}
Pred(k, p) == <<p[1] - dir_args[k][1], p[2] - dir_args[k][2]>>
HasPred(k, p) == InFrame(Pred(k, p)[1], Pred(k, p)[2])
\* Pixels call k has written whose predecessor is inside / outside the grid.
Inner(k) == {p \in VisitedSet(k) : HasPred(k, p)}
Border(k) == {p \in VisitedSet(k) : ~HasPred(k, p)}
PathAt(k, p) == path_cost_volume[k][p[1]][p[2]]
CostAt(p) == cost_volume[p[1]][p[2]]
AbsDiff(a, b) == IF a >= b THEN a - b ELSE b - a

\* C1: once the cost volume is computed, every cell with col - d >= 0 holds
\* |left[row][col] - right[row][col-d]|, and every cell with col < d holds the
\* sentinel 1000, which is the absolute difference of the pixel and no pixel
\* of the right image's row.
C1_SadCost ==
    pc # "start" =>
        \A y \in Rows, x \in Cols, d \in Disps :
            IF x >= d
            THEN cost_volume[y][x][d] =
                    AbsDiff(left_pixels[y * WIDTH + x], right_pixels[y * WIDTH + x - d])
            ELSE /\ cost_volume[y][x][d] = 1000
                 /\ \A x2 \in Cols :
                        cost_volume[y][x][d] #
                            AbsDiff(left_pixels[y * WIDTH + x], right_pixels[y * WIDTH + x2])
C1_Witness ==
    /\ pc # "start"
    /\ \E y \in Rows, x \in Cols, d \in Disps :
          /\ x >= d /\ d > 0 /\ cost_volume[y][x][d] = GrayMax
          /\ left_pixels[y * WIDTH + x] # right_pixels[y * WIDTH + x]
    /\ \E y \in Rows, x \in Cols, d \in Disps : x < d /\ cost_volume[y][x][d] = 1000

\* The transition candidates that exist at disparity d, from the predecessor's
\* aggregated costs prev.
Candidates(prev, d) ==
    {prev[d], SetMin(Values(prev)) + P2_PENALTY}
        \cup {prev[e] + P1_PENALTY : e \in {d - 1, d + 1} \cap Disps}

\* C2: every pixel a call has written whose predecessor is inside the grid
\* holds cost + transitionMin - minPrev at every d, transitionMin being the
\* least of the candidates that exist at d (a missing step is never selected).
C2_Recurrence ==
    \A k \in PathIds : \A i \in 1 .. Len(visited[k]) :
        LET p == visited[k][i]
            prev == PathAt(k, Pred(k, p))
        IN  HasPred(k, p) =>
                \A d \in Disps :
                    PathAt(k, p)[d] =
                        CostAt(p)[d] + SetMin(Candidates(prev, d)) - SetMin(Values(prev))
C2_Witness ==
    /\ pc = "done"
    /\ \E k \in PathIds : \E p \in Inner(k) :
          LET prev == PathAt(k, Pred(k, p))
              minPrev == SetMin(Values(prev))
          IN  \* at the lower edge the step up wins, at the upper the step down
              /\ prev[1] + P1_PENALTY < prev[0]
              /\ prev[1] + P1_PENALTY < minPrev + P2_PENALTY
              /\ PathAt(k, p)[0] = CostAt(p)[0] + prev[1] + P1_PENALTY - minPrev
    /\ \E k \in PathIds : \E p \in Inner(k) :
          LET prev == PathAt(k, Pred(k, p))
              minPrev == SetMin(Values(prev))
          IN  /\ prev[MAX_DISP - 2] + P1_PENALTY < prev[MAX_DISP - 1]
              /\ PathAt(k, p)[MAX_DISP - 1] =
                    CostAt(p)[MAX_DISP - 1] + prev[MAX_DISP - 2] + P1_PENALTY - minPrev
    /\ \E k \in PathIds : \E p \in Inner(k) : \E d \in Disps :
          LET prev == PathAt(k, Pred(k, p))
          IN  prev[d] > SetMin(Values(prev)) + P2_PENALTY

Total(i, d) == total_aggregated_cost(path_cost_volume, i \div WIDTH, i % WIDTH, d)

\* C3: the disparity written for a pixel is in [0, maxDisparity), its total is
\* the least total, and every smaller disparity has a strictly larger total.
C3_ArgMin ==
    pc = "done" =>
        \A i \in PixelIdx :
            /\ disparity_output[i] \in Disps
            /\ \A d \in Disps : Total(i, disparity_output[i]) <= Total(i, d)
            /\ \A d \in Disps :
                  d < disparity_output[i] => Total(i, d) > Total(i, disparity_output[i])
C3_Witness ==
    /\ pc = "done"
    /\ \E i \in PixelIdx : disparity_output[i] = MAX_DISP - 1
    /\ \E i \in PixelIdx : \E d \in Disps :
          /\ d > disparity_output[i]
          /\ Total(i, d) = Total(i, disparity_output[i])
          /\ disparity_output[i] > 0

\* C4: every pixel a call has written whose predecessor is outside the grid
\* holds the raw cost at every d.
C4_Boundary ==
    \A k \in PathIds : \A i \in 1 .. Len(visited[k]) :
        LET p == visited[k][i]
        IN  ~HasPred(k, p) => \A d \in Disps : PathAt(k, p)[d] = CostAt(p)[d]
C4_Witness ==
    /\ pc = "done"
    /\ \A k \in PathIds : \E p \in Border(k) : \E d \in Disps :
          PathAt(k, p)[d] = GrayMax
    /\ Border(1) = {<<y, 0>> : y \in Rows}
    /\ Border(4) = {<<HEIGHT - 1, x>> : x \in Cols}

\* C5: for identical images (and P1, P2 > 0) the raw cost at d = 0 is zero at
\* every pixel and the disparity written is 0 at every pixel.
C5_Identical ==
    (left_pixels = right_pixels /\ P1_PENALTY > 0 /\ P2_PENALTY > 0) =>
        /\ pc # "start" => \A y \in Rows, x \in Cols : cost_volume[y][x][0] = 0
        /\ pc = "done" => \A i \in PixelIdx : disparity_output[i] = 0
C5_Witness ==
    /\ left_pixels = right_pixels
    /\ pc = "done"
    /\ \E i, j \in PixelIdx : left_pixels[i] = GrayMax /\ left_pixels[j] = 0
    /\ \E y \in Rows, x \in Cols, d \in Disps : d > 0 /\ cost_volume[y][x][d] = 0

\* C8 (as amended): every written cell satisfies
\* cost <= aggregated <= cost + P2, so the least aggregated cost of a pixel is
\* at most its least raw cost plus P2, whatever the length of the path.
C8_Bounded ==
    \A k \in PathIds : \A i \in 1 .. Len(visited[k]) :
        LET p == visited[k][i]
        IN  /\ \A d \in Disps :
                  /\ CostAt(p)[d] <= PathAt(k, p)[d]
                  /\ PathAt(k, p)[d] <= CostAt(p)[d] + P2_PENALTY
            /\ SetMin(Values(PathAt(k, p))) <= SetMin(Values(CostAt(p))) + P2_PENALTY
C8_Witness ==
    /\ pc = "done"
    /\ \E k \in PathIds : \E p \in Inner(k) : \E d \in Disps :
          PathAt(k, p)[d] = CostAt(p)[d] + P2_PENALTY
    /\ \E k \in PathIds : \E p \in Inner(k) :
          /\ HasPred(k, Pred(k, p))
          /\ SetMin(Values(PathAt(k, p))) > SetMin(Values(CostAt(p)))
\* C8 as stated: the bound, and the least aggregated cost of a pixel never
\* exceeds that of its predecessor on the path.
C8_MinNeverGrows ==
    /\ C8_Bounded
    /\ \A k \in PathIds : \A i \in 1 .. Len(visited[k]) :
          LET p == visited[k][i]
          IN  HasPred(k, p) =>
                SetMin(Values(PathAt(k, p))) <= SetMin(Values(PathAt(k, Pred(k, p))))

\* C10: in each of the four calls the pixels written so far are distinct
\* pixels of the grid, the predecessor of each, when inside the grid, was
\* written before it, and a finished call has written every pixel.
C10_ScanOrder ==
    /\ dir_args = << <<0, 1>>, <<0, -1>>, <<1, 0>>, <<-1, 0>> >>
    /\ \A k \in PathIds :
          /\ \A i \in 1 .. Len(visited[k]) :
                /\ visited[k][i] \in Rows \X Cols
                /\ \A j \in 1 .. Len(visited[k]) :
                      visited[k][i] = visited[k][j] => i = j
                /\ HasPred(k, visited[k][i]) =>
                      \E j \in 1 .. (i - 1) : visited[k][j] = Pred(k, visited[k][i])
          /\ (pc # "start" /\ ScanFinished(dir_args[k], scan[k])) =>
                VisitedSet(k) = Rows \X Cols
C10_Witness ==
    /\ pc = "done"
    /\ visited[2][1] = <<0, WIDTH - 1>>
    /\ visited[4][1] = <<HEIGHT - 1, 0>>
    /\ \A k \in PathIds : Len(visited[k]) = HEIGHT * WIDTH

\* C6: a direction that is not one of the four cardinal unit vectors is
\* rejected before anything is written: no call writes a cell of an
\* aggregated volume and no disparity is written.
C6_FailFast ==
    ~IsCardinal(dir_args[1]) =>
        /\ \A k \in PathIds : visited[k] = <<>>
        /\ path_cost_volume = [k \in PathIds |-> ZeroVolume]
        /\ pc # "done"

\* C7: an invocation whose images are those of the first invocation writes
\* the disparity map the first invocation wrote, whatever ran in between.
C7_Deterministic ==
    (pc = "done" /\ left_pixels = first.left /\ right_pixels = first.right) =>
        disparity_output = first.out
C7_Witness ==
    /\ pc = "done"
    /\ run >= 3
    /\ mixed
    /\ left_pixels = first.left /\ right_pixels = first.right
    /\ \E i \in PixelIdx : disparity_output[i] > 0

\* What the four calls of lines 144-147 produce when run one after the other
\* on fresh buffers.
SequentialPaths ==
    [k \in PathIds |->
        aggregate_path_hls(compute_sad_cost_hls(left_pixels, right_pixels),
                           ZeroVolume, CardinalDirs[k][1], CardinalDirs[k][2])]
\* A step of call k leaves the cost volume and the other calls' volumes alone.
C9_Frame ==
    \A k \in PathIds :
        (pc = "aggregate" /\ scan'[k] # scan[k]) =>
            /\ cost_volume' = cost_volume
            /\ \A j \in PathIds \ {k} : path_cost_volume'[j] = path_cost_volume[j]
C9_Outcome ==
    /\ (pc = "aggregate" /\ AllAggregated) => path_cost_volume = SequentialPaths
    /\ pc = "done" =>
          /\ path_cost_volume = SequentialPaths
          /\ disparity_output = select_disparity(SequentialPaths)
\* C9: however the steps of the four calls interleave, each step changes only
\* its own call's volume, and the four volumes and the disparity map end as
\* the calls run one after the other leave them.
C9_OrderInsensitive == [][C9_Frame]_vars /\ []C9_Outcome
C9_Witness ==
    /\ pc = "aggregate"
    /\ Len(visited[4]) = HEIGHT * WIDTH
    /\ Len(visited[1]) = 1
    /\ Len(visited[3]) = 2
    /\ Len(visited[2]) = 0
    /\ \E y \in Rows, x \in Cols, d \in Disps :
          path_cost_volume[4][y][x][d] # cost_volume[y][x][d]

=============================================================================
